---------------------------- MODULE Spec2Model ----------------------------
(***************************************************************************)
(* A model of navPersia/agent_booking.                                     *)
(*                                                                         *)
(*   Spec        the booking orchestrator, agent/agent_run.py: run_turn    *)
(*               and the session it keeps.  The proposer (the language     *)
(*               model) and the two tool backends are the environment:     *)
(*               every utterance, every requested tool call and every      *)
(*               backend result (or failure) is drawn nondeterministically.*)
(*   SpecLedger  the OTP server, email_otp_server/email-otp-mcp-server.py: *)
(*               STORE, the send bucket, issue and verify, and a clock.    *)
(*   SpecSched   find_free_slot of MCP_Calendar/calendar_api_server.py,    *)
(*               applied to a window and a busy list drawn in Init.        *)
(*   SpecNorm    normalize_booking_args of agent/agent_run.py, applied to  *)
(*               a request drawn in Init and then to its own output.       *)
(*   SpecRace    the OTP server with two worker threads, its calls taken   *)
(*               statement by statement.                                   *)
(*                                                                         *)
(* The three programs are separate processes that talk over HTTP, so each  *)
(* specification moves its own variables and leaves the others alone.      *)
(***************************************************************************)
EXTENDS Integers, Sequences, FiniteSets, TLC

VARIABLES
    \* ---- agent/agent_run.py ----
    SESSION,        \* the SESSION dict: state, email, verified, history, proposed_*
    pc,             \* "idle": between turns; "tools": inside run_turn's loop over tool_calls
    user_text,      \* run_turn's argument for the turn in progress
    todo,           \* how many elements of tool_calls the loop has still to reach
    tc,             \* the loop's variable: the invocation the loop body last processed
    tool_messages,  \* run_turn's local list of tool records
    gateway,        \* the requests call_tool has posted during the current turn
    reply,          \* what the last finished turn returned ("raised": an exception)
    prev_text,      \* the text of the utterance of the turn before the current one
    \* ---- email_otp_server/email-otp-mcp-server.py ----
    STORE,          \* the in-memory store, key -> <<>> (absent) or <<record>>
    now,            \* the wall clock, in seconds
    otp,            \* the last ledger call: operation, address (lower case), code, result
    issued,         \* per key: <<>> or <<the code the last non-refused issue generated>>
    window,         \* per key: when the current rate window began and the calls made in it
    \* ---- MCP_Calendar/calendar_api_server.py ----
    sched,          \* find_free_slot's arguments, the busy list and its result
    \* ---- agent/agent_run.py: normalize_booking_args ----
    norm,           \* a request, and what one and two normalizations make of it
    \* ---- email_otp_server/email-otp-mcp-server.py, its worker threads ----
    heap,           \* the dict objects the threads made; STORE holds references to them
    threads,        \* per worker thread: where it stands in its call and its locals
    tally           \* the calls begun, the issues that passed the rate check, the newest record

vars == <<SESSION, pc, user_text, todo, tc, tool_messages, gateway, reply, prev_text,
          STORE, now, otp, issued, window, sched, norm, heap, threads, tally>>

agentVars  == <<SESSION, pc, user_text, todo, tc, tool_messages, gateway, reply, prev_text>>
ledgerVars == <<STORE, now, otp, issued, window>>
schedVars  == <<sched>>
normVars   == <<norm>>
raceVars   == <<heap, threads, tally>>

\* what a step of the agent leaves alone: the other programs
AgentFrame == UNCHANGED <<ledgerVars, schedVars, normVars, raceVars>>

(***************************************************************************)
(* Bounds of the model.                                                    *)
(***************************************************************************)
\* the longest tool_calls list the proposer returns in one turn
MaxCalls == 2

(***************************************************************************)
(* agent/agent_run.py                                                      *)
(***************************************************************************)
SEND    == "email.send_email_otp"
VERIFY  == "email.verify_email_otp"
FIND    == "calendar.find_free_slot"
CREATE  == "calendar.create_calendar_event"
LIST    == "calendar.list_calendar_events"
DELETE  == "calendar.delete_calendar_event"

\* CAL_TOOLS + EMAIL_TOOLS: the names the proposer can request
ALL_TOOLS == {SEND, VERIFY, FIND, CREATE, LIST, DELETE}

\* name.startswith("calendar.")
IsCalendar(name) == name \in {FIND, CREATE, LIST, DELETE}

\* the replies run_turn builds itself
NEED_CODE_FIRST == "I need to send you a verification code first. What is your email address?"
WHAT_EMAIL      == "What email address should I send the verification code to?"
VERIFY_FIRST    == "Please verify your email first. What is your email address?"
FOUND_SLOT      == "I found a free slot. Do you want me to book it?"
NO_SLOT         == "I couldn't find a free slot in that window. Would you like me to search a wider time range?"
\* a reply written by the proposer, and a turn that ended in an exception
LLM_REPLY       == "(proposer reply)"
RAISED          == "raised"

\* The user's utterances: the text, the email address EMAIL_RE finds in it
\* ("" when none), whether it holds one of the availability keywords, and
\* the time parse_when reads from it ("" when none).
Utterances ==
    { [text |-> "book a meeting tomorrow at 10", email |-> "",       avail |-> FALSE, when |-> "tomorrow 10:00"],
      [text |-> "my email is a@x.io",            email |-> "a@x.io", avail |-> FALSE, when |-> ""],
      [text |-> "use b@x.io instead",            email |-> "b@x.io", avail |-> FALSE, when |-> ""],
      [text |-> "is 3pm free?",                  email |-> "",       avail |-> TRUE,  when |-> "15:00"],
      [text |-> "the code is 123456",            email |-> "",       avail |-> FALSE, when |-> ""] }

NoUtterance == [text |-> "", email |-> "", avail |-> FALSE, when |-> ""]

extract_email(u) == u.email

wants_availability(u) == u.avail

\* parse_when, or the fallback "tomorrow 10:00" of run_turn
DesiredStart(u) == IF u.when = "" THEN "tomorrow 10:00" ELSE u.when

\* desired_dt + timedelta(minutes=duration), duration the default
DesiredEnd(u) == DesiredStart(u) \o " + 60 min"

\* The tool invocations the proposer can request: a name and the arguments
\* run_turn reads ("" is a missing argument).
ToolCalls ==
    [name : {SEND}, email : {"", "a@x.io", "b@x.io"}, code : {""},
     title : {""}, summary : {""}]
    \cup [name : {VERIFY}, email : {"a@x.io", "b@x.io"}, code : {"123456"},
          title : {""}, summary : {""}]
    \cup [name : {CREATE}, email : {""}, code : {""},
          title : {"", "Call"}, summary : {"", "Dentist"}]
    \cup [name : {FIND, LIST, DELETE}, email : {""}, code : {""},
          title : {""}, summary : {""}]

NoCall == [name |-> "", email |-> "", code |-> "", title |-> "", summary |-> ""]

\* What the backends can answer (a failure of the call is GatewayRaises).
SendResults   == { [ok |-> TRUE,  verified |-> FALSE, reason |-> ""],
                   [ok |-> FALSE, verified |-> FALSE, reason |-> "too_many_requests"] }
VerifyResults == { [ok |-> TRUE,  verified |-> TRUE,  reason |-> ""],
                   [ok |-> FALSE, verified |-> FALSE, reason |-> "incorrect_code"],
                   [ok |-> FALSE, verified |-> FALSE, reason |-> "no_pending"] }
SlotResults   == { [start |-> "", end |-> ""],
                   [start |-> "09:00", end |-> "10:00"],
                   [start |-> "14:00", end |-> "15:00"] }
OtherResults  == { [ok |-> TRUE, verified |-> FALSE, reason |-> ""] }

NoSlot == [start |-> "", end |-> ""]

SYSTEM_PROMPT == [role |-> "system", content |-> "You are a friendly booking assistant."]

Msg(role, content) == [role |-> role, content |-> content]

\* SESSION["history"] holds here the records appended since the current
\* turn began: run_turn reads the history only to test it for emptiness and
\* to find its last user record, which is the turn's own utterance.
SessionInit ==
    [state |-> "idle", email |-> "", verified |-> FALSE, history |-> <<>>,
     proposed_start_iso |-> "", proposed_end_iso |-> ""]

\* run_turn, lines 242-251: the email of the utterance, then the history
DetectEmail(s, u) ==
    IF extract_email(u) # ""
    THEN [s EXCEPT !.email = extract_email(u),
                   !.state = IF s.state = "idle" THEN "collecting_email" ELSE s.state]
    ELSE s

AppendUser(s, u) ==
    [s EXCEPT !.history = (IF s.history = <<>> THEN <<SYSTEM_PROMPT>> ELSE <<>>)
                          \o <<Msg("user", u.text)>>]

EnterTurn(s, u) == AppendUser(DetectEmail(s, u), u)

Say(s, text) == [s EXCEPT !.history = Append(@, Msg("assistant", text))]

\* the first completion raises: the exception leaves run_turn
TurnProposerRaises(u) ==
    /\ pc = "idle"
    /\ AgentFrame
    /\ SESSION' = EnterTurn(SESSION, u)
    /\ user_text' = u
    /\ prev_text' = user_text.text
    /\ reply' = RAISED
    /\ gateway' = <<>>
    /\ tool_messages' = <<>>
    /\ UNCHANGED <<pc, todo, tc>>

\* no tool call requested: the proposer's reply is returned
TurnDirectReply(u) ==
    /\ pc = "idle"
    /\ AgentFrame
    /\ SESSION' = Say(EnterTurn(SESSION, u), LLM_REPLY)
    /\ user_text' = u
    /\ prev_text' = user_text.text
    /\ reply' = LLM_REPLY
    /\ gateway' = <<>>
    /\ tool_messages' = <<>>
    /\ UNCHANGED <<pc, todo, tc>>

\* the proposer requests n tool calls: the loop begins
TurnToolCalls(u, n) ==
    /\ pc = "idle"
    /\ AgentFrame
    /\ SESSION' = EnterTurn(SESSION, u)
    /\ user_text' = u
    /\ prev_text' = user_text.text
    /\ pc' = "tools"
    /\ todo' = n
    /\ tool_messages' = <<>>
    /\ gateway' = <<>>
    /\ UNCHANGED <<reply, tc>>

\* ---- the FSM guards, in the order of the loop body ----
\* a guard that refuses verify only before any email is known
GuardVerify_idleOnly(s, c) == c.name = VERIFY /\ s.state = "idle"

GuardVerify(s, c) == c.name = VERIFY /\ s.state # "otp_sent"

GuardSend(s, c) == c.name = SEND /\ c.email = "" /\ s.email = ""

\* a guard that protects only event creation
GuardCalendar_createOnly(s, c) == c.name = CREATE /\ ~s.verified

GuardCalendar(s, c) == IsCalendar(c.name) /\ ~s.verified

Refused(s, c) == GuardVerify(s, c) \/ GuardSend(s, c) \/ GuardCalendar(s, c)

RefusalText(s, c) ==
    IF GuardVerify(s, c) THEN NEED_CODE_FIRST
    ELSE IF GuardSend(s, c) THEN WHAT_EMAIL
    ELSE VERIFY_FIRST

\* a guard refuses the invocation: the turn returns the clarifying reply
Refuse(c) ==
    /\ pc = "tools" /\ todo > 0
    /\ AgentFrame
    /\ tc' = c
    /\ Refused(SESSION, c)
    /\ SESSION' = Say(SESSION, RefusalText(SESSION, c))
    /\ reply' = RefusalText(SESSION, c)
    /\ pc' = "idle"
    /\ todo' = 0
    /\ UNCHANGED <<user_text, tool_messages, gateway, prev_text>>

\* call_tool: the request posted, with the X-Verified header of calendar calls
Request(name, email, start, end, summary, verified) ==
    [name |-> name, email |-> email, start_iso |-> start, end_iso |-> end,
     summary |-> summary, xverified |-> (IsCalendar(name) /\ verified)]

ToolMsg(name, result) == [role |-> "tool", content |-> name, result |-> result]

\* the email argument of a send: the session's when the proposer gave none
SendEmail(s, c) == IF c.email = "" THEN s.email ELSE c.email

\* --- Update FSM --- after email.send_email_otp
AfterSend(s, c, result) ==
    [s EXCEPT !.state = "otp_sent", !.email = SendEmail(s, c)]

ExecSend(c, result) ==
    /\ pc = "tools" /\ todo > 0
    /\ AgentFrame
    /\ tc' = c
    /\ c.name = SEND
    /\ ~Refused(SESSION, c)
    /\ gateway' = Append(gateway, Request(SEND, SendEmail(SESSION, c), "", "", "", SESSION.verified))
    /\ SESSION' = AfterSend(SESSION, c, result)
    /\ tool_messages' = Append(tool_messages, ToolMsg(SEND, result))
    /\ todo' = todo - 1
    /\ UNCHANGED <<pc, user_text, reply, prev_text>>

\* --- Update FSM --- after email.verify_email_otp
VerifyOk(result) == result.ok /\ result.verified

\* the two system records of the auto-resume; the first one quotes
\* last_user_intent
Followup(s, last_user_intent) ==
    IF last_user_intent # ""
    THEN [s EXCEPT !.history = @ \o
            << [role |-> "system", content |-> "resume", quote |-> last_user_intent],
               Msg("system", "If the request lacks title or duration, ask for them now.") >>]
    ELSE s

\* the content of the last user record among the first i records of the
\* history ("" for None)
RECURSIVE LastUserFrom(_, _)
LastUserFrom(history, i) ==
    IF i = 0 THEN ""
    ELSE IF history[i].role = "user" THEN history[i].content
         ELSE LastUserFrom(history, i - 1)

LastUser(s) == LastUserFrom(s.history, Len(s.history))

AfterVerify(s, result) ==
    LET s1 == [s EXCEPT !.verified = VerifyOk(result),
                        !.state = IF VerifyOk(result) THEN "verified" ELSE "otp_sent"]
    IN  IF VerifyOk(result) THEN Followup(s1, LastUser(s1)) ELSE s1

ExecVerify(c, result) ==
    /\ pc = "tools" /\ todo > 0
    /\ AgentFrame
    /\ tc' = c
    /\ c.name = VERIFY
    /\ ~Refused(SESSION, c)
    /\ gateway' = Append(gateway, Request(VERIFY, c.email, "", "", "", SESSION.verified))
    /\ SESSION' = AfterVerify(SESSION, result)
    /\ tool_messages' = Append(tool_messages, ToolMsg(VERIFY, result))
    /\ todo' = todo - 1
    /\ UNCHANGED <<pc, user_text, reply, prev_text>>

\* the find-free-slot path: the tool itself, or any calendar tool when the
\* utterance asks about availability
TakesFindPath(c, u) == IsCalendar(c.name) /\ (c.name = FIND \/ wants_availability(u))

AfterFind(s, slot) ==
    IF slot.start # "" /\ slot.end # ""
    THEN Say([s EXCEPT !.proposed_start_iso = slot.start,
                       !.proposed_end_iso = slot.end], FOUND_SLOT)
    ELSE Say(s, NO_SLOT)

ExecFindSlot(c, slot) ==
    /\ pc = "tools" /\ todo > 0
    /\ AgentFrame
    /\ tc' = c
    /\ ~Refused(SESSION, c)
    /\ TakesFindPath(c, user_text)
    /\ gateway' = Append(gateway, Request(FIND, "", "", "", "", SESSION.verified))
    /\ SESSION' = AfterFind(SESSION, slot)
    /\ reply' = IF slot.start # "" /\ slot.end # "" THEN FOUND_SLOT ELSE NO_SLOT
    /\ pc' = "idle"
    /\ todo' = 0
    /\ UNCHANGED <<user_text, tool_messages, prev_text>>

\* create_calendar_event: the cached slot is popped before the call
HasProposed(s) == s.proposed_start_iso # "" /\ s.proposed_end_iso # ""

\* a read of the cached slot that leaves it in the session
TakeProposed_keep(s) == s

TakeProposed(s) ==
    IF HasProposed(s)
    THEN [s EXCEPT !.proposed_start_iso = "", !.proposed_end_iso = ""]
    ELSE s

CreateStart(s, u) == IF HasProposed(s) THEN s.proposed_start_iso ELSE DesiredStart(u)

CreateEnd(s, u) == IF HasProposed(s) THEN s.proposed_end_iso ELSE DesiredEnd(u)

\* args.setdefault("summary", args.get("title") or "Appointment")
CreateSummary(c) ==
    IF c.summary # "" THEN c.summary
    ELSE IF c.title # "" THEN c.title ELSE "Appointment"

ExecCreate(c, result) ==
    /\ pc = "tools" /\ todo > 0
    /\ AgentFrame
    /\ tc' = c
    /\ c.name = CREATE
    /\ ~Refused(SESSION, c)
    /\ ~TakesFindPath(c, user_text)
    /\ gateway' = Append(gateway, Request(CREATE, "", CreateStart(SESSION, user_text),
                                          CreateEnd(SESSION, user_text), CreateSummary(c),
                                          SESSION.verified))
    /\ SESSION' = TakeProposed(SESSION)
    /\ tool_messages' = Append(tool_messages, ToolMsg(CREATE, result))
    /\ todo' = todo - 1
    /\ UNCHANGED <<pc, user_text, reply, prev_text>>

\* list_calendar_events, delete_calendar_event: passed through
ExecOther(c, result) ==
    /\ pc = "tools" /\ todo > 0
    /\ AgentFrame
    /\ tc' = c
    /\ c.name \in {LIST, DELETE}
    /\ ~Refused(SESSION, c)
    /\ ~TakesFindPath(c, user_text)
    /\ gateway' = Append(gateway, Request(c.name, "", "", "", "", SESSION.verified))
    /\ tool_messages' = Append(tool_messages, ToolMsg(c.name, result))
    /\ todo' = todo - 1
    /\ UNCHANGED <<SESSION, pc, user_text, reply, prev_text>>

\* call_tool raises (a network error, a timeout, raise_for_status): the
\* exception leaves run_turn with what the loop body did before the call
GatewayName(c, u) == IF TakesFindPath(c, u) THEN FIND ELSE c.name

GatewayRaises(c) ==
    /\ pc = "tools" /\ todo > 0
    /\ AgentFrame
    /\ tc' = c
    /\ ~Refused(SESSION, c)
    /\ gateway' = Append(gateway,
                         Request(GatewayName(c, user_text),
                                 IF c.name = SEND THEN SendEmail(SESSION, c) ELSE c.email,
                                 IF GatewayName(c, user_text) = CREATE
                                 THEN CreateStart(SESSION, user_text) ELSE "",
                                 IF GatewayName(c, user_text) = CREATE
                                 THEN CreateEnd(SESSION, user_text) ELSE "",
                                 IF GatewayName(c, user_text) = CREATE
                                 THEN CreateSummary(c) ELSE "",
                                 SESSION.verified))
    /\ SESSION' = IF GatewayName(c, user_text) = CREATE THEN TakeProposed(SESSION) ELSE SESSION
    /\ reply' = RAISED
    /\ pc' = "idle"
    /\ todo' = 0
    /\ UNCHANGED <<user_text, tool_messages, prev_text>>

\* after the loop: the assistant record with its tool_calls, the tool
\* records, then the second completion (which may raise)
WithToolRecords(s, msgs) ==
    [s EXCEPT !.history = (@ \o <<[role |-> "assistant", content |-> "", tool_calls |-> Len(msgs)]>>) \o msgs]

FinishTurn(ok) ==
    /\ pc = "tools" /\ todo = 0
    /\ AgentFrame
    /\ SESSION' = IF ok THEN Say(WithToolRecords(SESSION, tool_messages), LLM_REPLY)
                        ELSE WithToolRecords(SESSION, tool_messages)
    /\ reply' = IF ok THEN LLM_REPLY ELSE RAISED
    /\ pc' = "idle"
    /\ UNCHANGED <<user_text, todo, tc, tool_messages, gateway, prev_text>>

AgentInit ==
    /\ SESSION = SessionInit
    /\ pc = "idle"
    /\ user_text = NoUtterance
    /\ todo = 0
    /\ tc = NoCall
    /\ tool_messages = <<>>
    /\ gateway = <<>>
    /\ reply = ""
    /\ prev_text = ""

(***************************************************************************)
(* email_otp_server/email-otp-mcp-server.py                                *)
(*                                                                         *)
(* The server is taken as configured (ACS and FROM_EMAIL set): without     *)
(* them every issue raises before it touches the store.                    *)
(***************************************************************************)
TTL_S              == 600
MAX_SENDS_PER_HOUR == 5
MAX_ATTEMPTS       == 5
\* the length of the rate window of _incr_bucket, in seconds
WINDOW_S           == 3600

\* how far past its cap the model lets a counter run
ExtraSends    == 1
ExtraAttempts == 1

\* The instants the clock takes: the start, both sides of the expiry of a
\* code issued at the start, and both sides of the end of a rate window
\* begun at the start.
TimePoints == {0, TTL_S, TTL_S + 1, WINDOW_S, WINDOW_S + 1}

\* The addresses the callers name: one mailbox under two spellings, which
\* _key folds into one pair of keys.  The store is a dict and every call
\* reads and writes only the two keys of its own address, so one address
\* carries the whole behaviour of a key.
LedgerEmails == {"a@x.io", "A@x.io"}

\* email.lower()
lower(email) == IF email = "A@x.io" THEN "a@x.io" ELSE email

\* _key(email, suffix)
key(email, suffix) == <<"otp", lower(email), suffix>>

Keys == {key(e, x) : e \in LedgerEmails, x \in {"bucket", "meta"}}

\* the codes _otp(6) can draw, and the codes a caller can submit
Codes       == {"123456", "654321"}
SubmitCodes == Codes \cup {"000000"}

\* _hash: SHA-256, taken as injective
hash(code) == <<"sha256", code>>

Result(ok, verified, reason) == [ok |-> ok, verified |-> verified, reason |-> reason]

\* a window that is over as soon as the hour is full
BucketOver_atBoundary(rec, t) == rec = <<>> \/ t - rec[1].start >= WINDOW_S

\* the window test of _incr_bucket: no bucket yet, or the window is over
BucketOver(rec, t) == rec = <<>> \/ t - rec[1].start > WINDOW_S

\* _incr_bucket: the bucket record after the call; its count is returned
incr_bucket(store, email, t) ==
    LET rec  == store[key(email, "bucket")]
        base == IF BucketOver(rec, t) THEN [count |-> 0, start |-> t] ELSE rec[1]
    IN  [base EXCEPT !.count = @ + 1]

\* a cap that refuses the call that reaches it
RateRefused_atCap(count) == count >= MAX_SENDS_PER_HOUR

\* the rate check of _send_email_otp_impl
RateRefused(count) == count > MAX_SENDS_PER_HOUR

\* a re-send that keeps the attempts spent on the record it replaces
NewMeta_keepAttempts(old, code, t) ==
    [hash |-> hash(code), exp |-> t + TTL_S,
     attempts |-> IF old = <<>> THEN 0 ELSE old[1].attempts]

\* the record _send_email_otp_impl stores for a code generated at time t
NewMeta(old, code, t) == [hash |-> hash(code), exp |-> t + TTL_S, attempts |-> 0]

\* _send_email_otp_impl: the store and the result; delivered is whether the
\* mail backend accepted the message (it raises otherwise, after the store)
SendImpl(store, email, code, delivered, t) ==
    LET b  == incr_bucket(store, email, t)
        s1 == [store EXCEPT ![key(email, "bucket")] = <<b>>]
    IN  IF RateRefused(b.count)
        THEN [store |-> s1, result |-> Result(FALSE, FALSE, "too_many_requests")]
        ELSE [store  |-> [s1 EXCEPT ![key(email, "meta")] =
                                        <<NewMeta(s1[key(email, "meta")], code, t)>>],
              result |-> IF delivered THEN Result(TRUE, FALSE, "")
                                      ELSE Result(FALSE, FALSE, "http_500")]

\* the attempts counted before the expiry is looked at
VerifyReason_attemptsFirst(meta, code, t) ==
    IF meta = <<>> THEN "no_pending"
    ELSE IF meta[1].attempts + 1 > MAX_ATTEMPTS THEN "too_many_attempts"
    ELSE IF t > meta[1].exp THEN "expired"
    ELSE IF hash(code) # meta[1].hash THEN "incorrect_code"
    ELSE ""

\* the attempts compared before they are incremented
VerifyReason_staleCount(meta, code, t) ==
    IF meta = <<>> THEN "no_pending"
    ELSE IF t > meta[1].exp THEN "expired"
    ELSE IF meta[1].attempts > MAX_ATTEMPTS THEN "too_many_attempts"
    ELSE IF hash(code) # meta[1].hash THEN "incorrect_code"
    ELSE ""

\* _verify_email_otp_impl: what the call answers, the checks in their order
VerifyReason(meta, code, t) ==
    IF meta = <<>> THEN "no_pending"
    ELSE IF t > meta[1].exp THEN "expired"
    ELSE IF meta[1].attempts + 1 > MAX_ATTEMPTS THEN "too_many_attempts"
    ELSE IF hash(code) # meta[1].hash THEN "incorrect_code"
    ELSE ""

\* a success that leaves the record in place
VerifyMeta_keepOnSuccess(meta, reason) ==
    IF reason \in {"too_many_attempts", "incorrect_code"}
    THEN <<[meta[1] EXCEPT !.attempts = @ + 1]>>
    ELSE IF reason = "" THEN meta ELSE <<>>

\* _verify_email_otp_impl: what the call leaves under the meta key
VerifyMeta(meta, reason) ==
    IF reason \in {"too_many_attempts", "incorrect_code"}
    THEN <<[meta[1] EXCEPT !.attempts = @ + 1]>>
    ELSE <<>>

VerifyImpl(store, email, code, t) ==
    LET k      == key(email, "meta")
        reason == VerifyReason(store[k], code, t)
    IN  [store  |-> [store EXCEPT ![k] = VerifyMeta(store[k], reason)],
         result |-> Result(reason = "", reason = "", reason)]

\* ---- what the model records about the calls, for the claims ----
\* issued[lower(email)]: the code of the last non-refused issue, the code it
\* superseded while that one was still pending and unexpired, the verify
\* calls that found its record in place and unexpired, and whether the code
\* has been redeemed.
Pending(store, email, t) ==
    LET m == store[key(email, "meta")] IN m # <<>> /\ t <= m[1].exp

IssuedAfterSend(email, code, refused) ==
    LET e == lower(email) IN
    IF refused THEN issued
    ELSE [issued EXCEPT ![e] =
            <<[code |-> code,
               prev |-> IF Pending(STORE, email, now) /\ issued[e] # <<>>
                           /\ ~issued[e][1].redeemed
                        THEN issued[e][1].code ELSE "",
               verifies |-> 0,
               redeemed |-> FALSE]>>]

IssuedAfterVerify(email, ok) ==
    LET e == lower(email) IN
    IF issued[e] = <<>> THEN issued
    ELSE [issued EXCEPT ![e] =
            <<[@[1] EXCEPT !.verifies = IF Pending(STORE, email, now) THEN @ + 1 ELSE @,
                           !.redeemed = @ \/ ok]>>]

\* window[lower(email)]: the rate window as the specification defines it: it
\* begins with the first issue, or with the first issue made more than an
\* hour after it began; calls counts the issues made in it, before those
\* made in the window it followed.
WindowAfterSend(email) ==
    LET e == lower(email) IN
    [window EXCEPT ![e] =
        IF @ = <<>> \/ now - @[1].start > WINDOW_S
        THEN <<[start |-> now, calls |-> 1, before |-> IF @ = <<>> THEN 0 ELSE @[1].calls]>>
        ELSE <<[@[1] EXCEPT !.calls = @ + 1]>>]

LedgerFrame == UNCHANGED <<agentVars, schedVars, normVars, raceVars>>

\* POST /call email.send_email_otp
send_email_otp(email, code, delivered) ==
    /\ LedgerFrame
    /\ incr_bucket(STORE, email, now).count <= MAX_SENDS_PER_HOUR + ExtraSends
    /\ LET r == SendImpl(STORE, email, code, delivered, now) IN
        /\ STORE' = r.store
        /\ otp' = [op |-> "send", email |-> lower(email),
                   code |-> IF r.result.reason = "too_many_requests" THEN "" ELSE code,
                   result |-> r.result]
        /\ issued' = IssuedAfterSend(email, code, r.result.reason = "too_many_requests")
    /\ window' = WindowAfterSend(email)
    /\ UNCHANGED now

\* POST /call email.verify_email_otp
verify_email_otp(email, code) ==
    /\ LedgerFrame
    /\ LET m == STORE[key(email, "meta")] IN
         IF m = <<>> \/ now > m[1].exp THEN TRUE
         ELSE m[1].attempts < MAX_ATTEMPTS + ExtraAttempts
    /\ LET r == VerifyImpl(STORE, email, code, now) IN
        /\ STORE' = r.store
        /\ otp' = [op |-> "verify", email |-> lower(email), code |-> code, result |-> r.result]
        /\ issued' = IssuedAfterVerify(email, r.result.ok)
    /\ UNCHANGED <<now, window>>

\* time passes
Tick(t) ==
    /\ LedgerFrame
    /\ t > now
    /\ now' = t
    /\ UNCHANGED <<STORE, otp, issued, window>>

LedgerKeys == {lower(e) : e \in LedgerEmails}

NoOtp == [op |-> "", email |-> "", code |-> "", result |-> Result(FALSE, FALSE, "")]

LedgerInit ==
    /\ STORE = [k \in Keys |-> <<>>]
    /\ now = 0
    /\ otp = NoOtp
    /\ issued = [e \in LedgerKeys |-> <<>>]
    /\ window = [e \in LedgerKeys |-> <<>>]


(***************************************************************************)
(* MCP_Calendar/calendar_api_server.py: find_free_slot                     *)
(*                                                                         *)
(* Instants are whole minutes on one time line; the busy list is what the  *)
(* free/busy query answered.                                               *)
(***************************************************************************)
\* the instants run from 0 to MaxTime; the window lies strictly inside, so
\* that a busy interval can begin before it and begin after it
MaxTime == 4
\* the longest busy list
MaxBusy == 2
\* the largest duration_minutes and pad_minutes
MaxDur  == 2
MaxPad  == 1

Instants  == 0..MaxTime
Intervals == {b \in [start : Instants, end : Instants] : b.start < b.end}
Windows   == {w \in Intervals : w.start >= 1 /\ w.end <= MaxTime - 1}

RECURSIVE SeqsUpTo(_, _)
SeqsUpTo(S, n) ==
    IF n = 0 THEN {<<>>}
    ELSE LET shorter == SeqsUpTo(S, n - 1)
         IN  shorter \cup {Append(q, x) : q \in {p \in shorter : Len(p) = n - 1}, x \in S}

BusyLists == SeqsUpTo(Intervals, MaxBusy)

\* the loop over busy: the free blocks collected and the cursor, from the
\* i-th interval on
RECURSIVE ScanBusy(_, _, _, _)
ScanBusy(busy, i, cursor, blocks) ==
    IF i > Len(busy) THEN [cursor |-> cursor, blocks |-> blocks]
    ELSE LET bs == busy[i].start
             be == busy[i].end
         IN  ScanBusy(busy, i + 1,
                      IF be > cursor THEN be ELSE cursor,
                      IF bs > cursor THEN Append(blocks, <<cursor, bs>>) ELSE blocks)

\* blocks, after the trailing one is added
FreeBlocks(start, end, busy) ==
    LET r == ScanBusy(busy, 1, start, <<>>)
    IN  IF r.cursor < end THEN Append(r.blocks, <<r.cursor, end>>) ELSE r.blocks

NotFound == [found |-> FALSE, start |-> 0, end |-> 0]

\* a fit that asks for a block strictly longer than needed
RECURSIVE FirstFit_strict(_, _, _, _, _)
FirstFit_strict(blocks, i, need, duration_minutes, pad_minutes) ==
    IF i > Len(blocks) THEN NotFound
    ELSE IF blocks[i][2] - blocks[i][1] > need
         THEN [found |-> TRUE,
               start |-> blocks[i][1] + pad_minutes,
               end   |-> blocks[i][1] + pad_minutes + duration_minutes]
         ELSE FirstFit_strict(blocks, i + 1, need, duration_minutes, pad_minutes)

\* the loop over blocks: the first one long enough, padded
RECURSIVE FirstFit(_, _, _, _, _)
FirstFit(blocks, i, need, duration_minutes, pad_minutes) ==
    IF i > Len(blocks) THEN NotFound
    ELSE IF blocks[i][2] - blocks[i][1] >= need
         THEN [found |-> TRUE,
               start |-> blocks[i][1] + pad_minutes,
               end   |-> blocks[i][1] + pad_minutes + duration_minutes]
         ELSE FirstFit(blocks, i + 1, need, duration_minutes, pad_minutes)

FindFreeSlot(duration_minutes, window_start, window_end, pad_minutes, busy) ==
    FirstFit(FreeBlocks(window_start, window_end, busy), 1,
             duration_minutes + pad_minutes * 2, duration_minutes, pad_minutes)

SchedFrame == UNCHANGED <<agentVars, ledgerVars, normVars, raceVars>>

\* POST /call find_free_slot
find_free_slot ==
    /\ SchedFrame
    /\ ~sched.done
    /\ sched' = [sched EXCEPT
                   !.done = TRUE,
                   !.result = FindFreeSlot(sched.duration_minutes, sched.window.start,
                                           sched.window.end, sched.pad_minutes, sched.busy)]

\* minutes since midnight
Clock(h, m) == h * 60 + m

\* one call on the scale of a working day: the window 09:00-13:00, the
\* busy list [[09:30,10:00],[11:00,11:30]], 30 minutes, no padding
MorningCall ==
    [window |-> [start |-> Clock(9, 0), end |-> Clock(13, 0)],
     busy |-> << [start |-> Clock(9, 30), end |-> Clock(10, 0)],
                 [start |-> Clock(11, 0), end |-> Clock(11, 30)] >>,
     duration_minutes |-> 30, pad_minutes |-> 0]

SchedCall(args) ==
    [window |-> args.window, busy |-> args.busy, duration_minutes |-> args.duration_minutes,
     pad_minutes |-> args.pad_minutes, done |-> FALSE, result |-> NotFound]

SchedInit ==
    \/ \E w \in Windows, busy \in BusyLists, d \in 1..MaxDur, p \in 0..MaxPad :
          sched = SchedCall([window |-> w, busy |-> busy, duration_minutes |-> d,
                                pad_minutes |-> p])
    \/ sched = SchedCall(MorningCall)


(***************************************************************************)
(* agent/agent_run.py: normalize_booking_args                              *)
(*                                                                         *)
(* An ISO string is the wall-clock minute it names and the way it spells   *)
(* its offset: "" (none), "Z", "+00:00" or "+01:00"; Junk is a string that *)
(* datetime.fromisoformat rejects.  A datetime is the minute and the       *)
(* offset of its tzinfo ("" for a naive one).                              *)
(***************************************************************************)
DEFAULT_DURATION_MIN == 60

\* the offset of TZINFO
LocalOffset == "+01:00"

Junk == [t |-> 0, off |-> "junk"]

\* datetime.fromisoformat(provided.replace("Z", "+00:00")): <<>> for None
fromisoformat(str) ==
    IF str.off = "junk" THEN <<>>
    ELSE << [t |-> str.t, off |-> IF str.off = "Z" THEN "+00:00" ELSE str.off] >>

\* datetime.isoformat()
isoformat(dt) == [t |-> dt.t, off |-> dt.off]

\* tomorrow at 10:00, in minutes from last midnight, in the local zone
TomorrowAtTen == [t |-> (24 + 10) * 60, off |-> LocalOffset]

\* end_dt: start_dt plus duration_minutes, or the default duration
NormEnd(args, start_dt) ==
    [start_dt EXCEPT !.t = @ + (IF args.duration_minutes = 0 THEN DEFAULT_DURATION_MIN
                                ELSE args.duration_minutes)]

\* normalize_booking_args(args, last_user_intent, tz): the arguments it
\* returns, or raised: parse_when is handed tz, a string, as tzinfo, and
\* datetime.now rejects it.  Absent keys are "", 0 and <<>>.
normalize_booking_args(args, last_user_intent) ==
    LET summary  == IF args.summary # "" THEN args.summary
                    ELSE IF args.title # "" THEN args.title ELSE "Appointment"
        provided == IF args.start_iso = <<>> THEN <<>> ELSE fromisoformat(args.start_iso[1])
        parses   == provided = <<>> /\ last_user_intent # ""
        found    == IF provided # <<>> THEN provided[1] ELSE TomorrowAtTen
        start_dt == IF found.off = "" THEN [found EXCEPT !.off = LocalOffset] ELSE found
        end_dt   == NormEnd(args, start_dt)
    IN  [raised |-> parses,
         args   |-> [summary |-> summary, title |-> "", duration_minutes |-> 0,
                     start_iso |-> <<isoformat(start_dt)>>,
                     end_iso |-> <<isoformat(end_dt)>>]]

\* the requests normalized: start_iso and end_iso absent, malformed or
\* naming one of two minutes under each spelling of the offset
NormMinutes == {600, 900}
Offsets     == {"", "Z", "+00:00", "+01:00"}
IsoStrings  == [t : NormMinutes, off : Offsets]
Durations   == {0, 30, 60, 90}

BookingArgs ==
    [summary : {"", "Dentist"}, title : {"", "Call"}, duration_minutes : Durations,
     start_iso : {<<>>, <<Junk>>} \cup {<<x>> : x \in IsoStrings},
     end_iso : {<<>>} \cup {<<[t |-> 660, off |-> o]>> : o \in {"Z", "+01:00"}}]

Intents == {"", "tomorrow at 10"}

NormFrame == UNCHANGED <<agentVars, ledgerVars, schedVars, raceVars>>

\* the first application, to the request
normalize ==
    /\ NormFrame
    /\ norm.stage = "args"
    /\ LET r == normalize_booking_args(norm.args, norm.intent) IN
         norm' = [norm EXCEPT !.stage = IF r.raised THEN "raised" ELSE "once",
                              !.once = IF r.raised THEN @ ELSE r.args]

\* the second application, to the output of the first
renormalize ==
    /\ NormFrame
    /\ norm.stage = "once"
    /\ LET r == normalize_booking_args(norm.once, norm.intent) IN
         norm' = [norm EXCEPT !.stage = IF r.raised THEN "raised" ELSE "twice",
                              !.twice = IF r.raised THEN @ ELSE r.args]

NoArgs == [summary |-> "", title |-> "", duration_minutes |-> 0,
           start_iso |-> <<>>, end_iso |-> <<>>]

NormInit ==
    \E a \in BookingArgs, i \in Intents :
        norm = [stage |-> "args", args |-> a, intent |-> i, once |-> NoArgs, twice |-> NoArgs]

NormIdle ==
    norm = [stage |-> "idle", args |-> NoArgs, intent |-> "", once |-> NoArgs, twice |-> NoArgs]

(***************************************************************************)
(* email_otp_server/email-otp-mcp-server.py under concurrent requests      *)
(*                                                                         *)
(* call is a plain def, so the server runs each request on a worker        *)
(* thread; the threads share STORE and take no lock.  A thread can be      *)
(* preempted between any two statements, and every _get, _set and _del is  *)
(* a call.  The records are dict objects: _get hands out a reference, and  *)
(* an update in place is seen through every reference.  Here STORE maps a  *)
(* key to <<>> or to <<a position in heap>>.  All calls name one address   *)
(* and the clock stands still: they fall into one rate window.  An update  *)
(* in place (+= 1) is taken as one step.  A meta object also carries, for  *)
(* the claims, how often its hash was compared and how often a verify      *)
(* succeeded on it.                                                        *)
(***************************************************************************)
\* the worker threads
Threads == {1, 2}

\* the calls the threads begin, all told
MaxRaceCalls == 6

TheEmail  == "a@x.io"
BucketKey == key(TheEmail, "bucket")
MetaKey   == key(TheEmail, "meta")

\* None
NoRef == 0

Ref(store, k) == IF store[k] = <<>> THEN NoRef ELSE store[k][1]

Tracked(meta) ==
    [hash |-> meta.hash, exp |-> meta.exp, attempts |-> meta.attempts,
     compared |-> 0, redeemed |-> 0]

IdleThread == [pc |-> "idle", rec |-> NoRef, code |-> "", result |-> Result(FALSE, FALSE, "")]

At(t, pc_) == threads[t].pc = pc_

Goto(t, pc_) == [threads EXCEPT ![t].pc = pc_]

Return(t, result) == [threads EXCEPT ![t].pc = "idle", ![t].rec = NoRef, ![t].result = result]

RaceFrame == UNCHANGED <<agentVars, schedVars, normVars, now, otp, issued, window>>

\* a request for send_email_otp arrives: _incr_bucket, rec = _get(k)
BeginSend(t) ==
    /\ RaceFrame
    /\ At(t, "idle")
    /\ tally.calls < MaxRaceCalls
    /\ threads' = [threads EXCEPT ![t] = [pc |-> "bucket_test", rec |-> Ref(STORE, BucketKey),
                                          code |-> "", result |-> Result(FALSE, FALSE, "")]]
    /\ tally' = [tally EXCEPT !.calls = @ + 1]
    /\ UNCHANGED <<STORE, heap>>

\* if not rec or now - rec["start"] > 3600: rec = {"count": 0, "start": now}
BucketTest(t) ==
    /\ RaceFrame
    /\ At(t, "bucket_test")
    /\ IF threads[t].rec = NoRef \/ BucketOver(<<heap[threads[t].rec]>>, now)
       THEN /\ heap' = Append(heap, [count |-> 0, start |-> now])
            /\ threads' = [threads EXCEPT ![t].pc = "bucket_incr", ![t].rec = Len(heap) + 1]
       ELSE /\ heap' = heap
            /\ threads' = Goto(t, "bucket_incr")
    /\ UNCHANGED <<STORE, tally>>

\* rec["count"] += 1
BucketIncr(t) ==
    /\ RaceFrame
    /\ At(t, "bucket_incr")
    /\ heap' = [heap EXCEPT ![threads[t].rec].count = @ + 1]
    /\ threads' = Goto(t, "bucket_set")
    /\ UNCHANGED <<STORE, tally>>

\* _set(k, rec)
BucketSet(t) ==
    /\ RaceFrame
    /\ At(t, "bucket_set")
    /\ STORE' = [STORE EXCEPT ![BucketKey] = <<threads[t].rec>>]
    /\ threads' = Goto(t, "rate_check")
    /\ UNCHANGED <<heap, tally>>

\* return rec["count"], and the rate check of _send_email_otp_impl
RateCheck(t) ==
    /\ RaceFrame
    /\ At(t, "rate_check")
    /\ IF RateRefused(heap[threads[t].rec].count)
       THEN /\ threads' = Return(t, Result(FALSE, FALSE, "too_many_requests"))
            /\ tally' = tally
       ELSE /\ threads' = [threads EXCEPT ![t].pc = "store_meta", ![t].rec = NoRef]
            /\ tally' = [tally EXCEPT !.passed = @ + 1]
    /\ UNCHANGED <<STORE, heap>>

\* code = _otp(6); meta = {...}; _set(_key(email, "meta"), meta); the mail
StoreMeta(t, code) ==
    /\ RaceFrame
    /\ At(t, "store_meta")
    /\ heap' = Append(heap, Tracked(NewMeta(<<>>, code, now)))
    /\ STORE' = [STORE EXCEPT ![MetaKey] = <<Len(heap) + 1>>]
    /\ threads' = [Return(t, Result(TRUE, FALSE, "")) EXCEPT ![t].code = code]
    /\ tally' = [tally EXCEPT !.newest = Len(heap) + 1]

\* a request for verify_email_otp arrives: meta = _get(...), no_pending
BeginVerify(t, code) ==
    /\ RaceFrame
    /\ At(t, "idle")
    /\ tally.calls < MaxRaceCalls
    /\ tally' = [tally EXCEPT !.calls = @ + 1]
    /\ IF Ref(STORE, MetaKey) = NoRef
       THEN threads' = [Return(t, Result(FALSE, FALSE, "no_pending")) EXCEPT ![t].code = code]
       ELSE threads' = [threads EXCEPT ![t] = [pc |-> "verify_exp", rec |-> Ref(STORE, MetaKey),
                                               code |-> code, result |-> Result(FALSE, FALSE, "")]]
    /\ UNCHANGED <<STORE, heap>>

\* if _now() > exp: _del(...), expired; else meta["attempts"] += 1
VerifyExpiry(t) ==
    /\ RaceFrame
    /\ At(t, "verify_exp")
    /\ IF now > heap[threads[t].rec].exp
       THEN /\ STORE' = [STORE EXCEPT ![MetaKey] = <<>>]
            /\ threads' = Return(t, Result(FALSE, FALSE, "expired"))
            /\ heap' = heap
       ELSE /\ heap' = [heap EXCEPT ![threads[t].rec].attempts = @ + 1]
            /\ threads' = Goto(t, "verify_check")
            /\ STORE' = STORE
    /\ UNCHANGED tally

\* the attempts test and the hash test, each with its _set; else _del
VerifyCheck(t) ==
    /\ RaceFrame
    /\ At(t, "verify_check")
    /\ LET meta == heap[threads[t].rec] IN
         IF meta.attempts > MAX_ATTEMPTS
         THEN /\ STORE' = [STORE EXCEPT ![MetaKey] = <<threads[t].rec>>]
              /\ threads' = Return(t, Result(FALSE, FALSE, "too_many_attempts"))
              /\ heap' = heap
         ELSE IF hash(threads[t].code) # meta.hash
         THEN /\ STORE' = [STORE EXCEPT ![MetaKey] = <<threads[t].rec>>]
              /\ threads' = Return(t, Result(FALSE, FALSE, "incorrect_code"))
              /\ heap' = [heap EXCEPT ![threads[t].rec].compared = @ + 1]
         ELSE /\ STORE' = [STORE EXCEPT ![MetaKey] = <<>>]
              /\ threads' = Return(t, Result(TRUE, TRUE, ""))
              /\ heap' = [heap EXCEPT ![threads[t].rec].compared = @ + 1,
                                      ![threads[t].rec].redeemed = @ + 1]
    /\ UNCHANGED tally

RaceInit ==
    /\ STORE = [k \in Keys |-> <<>>]
    /\ now = 0
    /\ otp = NoOtp
    /\ issued = <<>>
    /\ window = <<>>
    /\ heap = <<>>
    /\ threads = [t \in Threads |-> IdleThread]
    /\ tally = [calls |-> 0, passed |-> 0, newest |-> NoRef]

RaceIdle ==
    /\ heap = <<>>
    /\ threads = <<>>
    /\ tally = [calls |-> 0, passed |-> 0, newest |-> NoRef]


LedgerIdle ==
    /\ STORE = <<>>
    /\ now = 0
    /\ otp = <<>>
    /\ issued = <<>>
    /\ window = <<>>

SchedIdle ==
    sched = [window |-> [start |-> 1, end |-> 2], busy |-> <<>>, duration_minutes |-> 1,
             pad_minutes |-> 0, done |-> TRUE, result |-> NotFound]

Init == AgentInit /\ LedgerIdle /\ SchedIdle /\ NormIdle /\ RaceIdle

InitSched == SchedInit /\ AgentInit /\ LedgerIdle /\ NormIdle /\ RaceIdle

Next ==
    \/ \E u \in Utterances : TurnProposerRaises(u)
    \/ \E u \in Utterances : TurnDirectReply(u)
    \/ \E u \in Utterances, n \in 1..MaxCalls : TurnToolCalls(u, n)
    \/ \E c \in ToolCalls : Refuse(c)
    \/ \E c \in ToolCalls, r \in SendResults : ExecSend(c, r)
    \/ \E c \in ToolCalls, r \in VerifyResults : ExecVerify(c, r)
    \/ \E c \in ToolCalls, r \in SlotResults : ExecFindSlot(c, r)
    \/ \E c \in ToolCalls, r \in OtherResults : ExecCreate(c, r)
    \/ \E c \in ToolCalls, r \in OtherResults : ExecOther(c, r)
    \/ \E c \in ToolCalls : GatewayRaises(c)
    \/ \E ok \in BOOLEAN : FinishTurn(ok)

Spec == Init /\ [][Next]_vars

InitLedger == LedgerInit /\ AgentInit /\ SchedIdle /\ NormIdle /\ RaceIdle

NextLedger ==
    \/ \E e \in LedgerEmails, c \in Codes, d \in BOOLEAN : send_email_otp(e, c, d)
    \/ \E e \in LedgerEmails, c \in SubmitCodes : verify_email_otp(e, c)
    \/ \E t \in TimePoints : Tick(t)

SpecLedger == InitLedger /\ [][NextLedger]_vars

NextSched == find_free_slot

SpecSched == InitSched /\ [][NextSched]_vars

InitNorm == NormInit /\ AgentInit /\ LedgerIdle /\ SchedIdle /\ RaceIdle

NextNorm == normalize \/ renormalize

SpecNorm == InitNorm /\ [][NextNorm]_vars

InitRace == RaceInit /\ AgentInit /\ SchedIdle /\ NormIdle

NextRace ==
    \/ \E t \in Threads : BeginSend(t)
    \/ \E t \in Threads : BucketTest(t)
    \/ \E t \in Threads : BucketIncr(t)
    \/ \E t \in Threads : BucketSet(t)
    \/ \E t \in Threads : RateCheck(t)
    \/ \E t \in Threads, c \in Codes : StoreMeta(t, c)
    \/ \E t \in Threads, c \in SubmitCodes : BeginVerify(t, c)
    \/ \E t \in Threads : VerifyExpiry(t)
    \/ \E t \in Threads : VerifyCheck(t)

SpecRace == InitRace /\ [][NextRace]_vars

(***************************************************************************)
(* Claims about the orchestrator, checked under Spec.                      *)
(***************************************************************************)
\* a step of the loop body: it processes one requested invocation, tc'
LoopStep == pc = "tools" /\ todo > 0

\* a step that begins a turn with utterance user_text'
TurnStep == pc = "idle"

\* C1: whenever the loop body processes a calendar.* invocation while
\* SESSION.verified is false, call_tool posts nothing for it (the gateway
\* log does not grow) and the turn ends with the reply that asks the user
\* to verify.
C1_CalendarRefusedUnverified ==
    [][ (LoopStep /\ IsCalendar(tc'.name) /\ ~SESSION.verified)
        => /\ gateway' = gateway
           /\ reply' = VERIFY_FIRST
           /\ pc' = "idle" ]_vars

\* a turn has just refused a calendar invocation of an unverified session,
\* after an earlier invocation of the same turn went to the gateway
C1_Witness ==
    /\ pc = "idle"
    /\ IsCalendar(tc.name)
    /\ ~SESSION.verified
    /\ reply = VERIFY_FIRST
    /\ gateway # <<>>
    /\ \A i \in 1..Len(gateway) : ~IsCalendar(gateway[i].name)

\* C2: at the end of every turn, SESSION.verified is true exactly when
\* SESSION.state is "verified".
C2_VerifiedIffStateVerified ==
    pc = "idle" => (SESSION.verified <=> SESSION.state = "verified")

\* C3: a turn whose utterance carries an email address other than the
\* recorded one, begun while SESSION.verified is true, resets
\* SESSION.verified to false.
C3_EmailChangeResetsVerified ==
    [][ (TurnStep /\ SESSION.verified
         /\ extract_email(user_text') # ""
         /\ extract_email(user_text') # SESSION.email)
        => ~SESSION'.verified ]_vars

\* the last element of a non-empty sequence
Last(q) == q[Len(q)]

\* a step of the loop body that posts a request to the gateway
PostStep(name) ==
    /\ LoopStep
    /\ Len(gateway') = Len(gateway) + 1
    /\ Last(gateway').name = name

\* a step that posts a request and gets a result back
ResultStep(name) ==
    /\ PostStep(name)
    /\ Len(tool_messages') = Len(tool_messages) + 1

Cached(s) == <<s.proposed_start_iso, s.proposed_end_iso>>

\* C12: a create_calendar_event call made while a slot is cached carries
\* the cached start and end and leaves the cache empty; one made while
\* nothing is cached carries the times read from the utterance and leaves
\* the cache empty; and the cache is filled only by a find_free_slot call
\* that found a slot.  So a cached slot goes into exactly one create call.
C12_PendingSlotConsumedOnce ==
    [][ /\ PostStep(CREATE) =>
              /\ ~HasProposed(SESSION')
              /\ IF HasProposed(SESSION)
                 THEN /\ Last(gateway').start_iso = SESSION.proposed_start_iso
                      /\ Last(gateway').end_iso = SESSION.proposed_end_iso
                 ELSE /\ Last(gateway').start_iso = DesiredStart(user_text)
                      /\ Last(gateway').end_iso = DesiredEnd(user_text)
        /\ (HasProposed(SESSION') /\ Cached(SESSION') # Cached(SESSION)) =>
              (PostStep(FIND) /\ reply' = FOUND_SLOT) ]_vars

\* two create calls in one turn: the first carried the slot cached by an
\* earlier search, the second found nothing cached and carried the times
\* of the utterance
C12_Witness ==
    /\ Len(gateway) = 2
    /\ gateway[1].name = CREATE /\ gateway[2].name = CREATE
    /\ \E r \in SlotResults :
          r # NoSlot /\ gateway[1].start_iso = r.start /\ gateway[1].end_iso = r.end
    /\ gateway[2].start_iso = DesiredStart(user_text)
    /\ gateway[2].end_iso = DesiredEnd(user_text)
    /\ ~HasProposed(SESSION)

\* the texts the resume records among the records i..Len(history) quote
ResumeQuotes(history, i) ==
    { history[j].quote : j \in { k \in i..Len(history) :
                                    /\ history[k].role = "system"
                                    /\ history[k].content = "resume" } }

\* C13: when a verify succeeds in a turn later than the one that sent the
\* code (no send was posted in this turn) and the turn's utterance is not
\* the previous one repeated, the step appends a resume record, and the
\* text it quotes is not the utterance of this turn, the one that carried
\* the code.
C13_ResumeQuotesEarlierRequest ==
    [][ ( /\ ResultStep(VERIFY)
          /\ VerifyOk(Last(tool_messages').result)
          /\ \A i \in 1..Len(gateway) : gateway[i].name # SEND
          /\ prev_text # "" /\ prev_text # user_text.text )
        => LET Q == ResumeQuotes(SESSION'.history, Len(SESSION.history) + 1)
           IN  Q # {} /\ user_text.text \notin Q ]_vars

\* what of the session a failed turn is to leave alone
Fields(s) == <<s.state, s.verified, s.email, s.proposed_start_iso, s.proposed_end_iso>>

\* C17: a step in which the proposer call or call_tool raises leaves
\* state, verified, email and the cached slot of the session as they were
\* before the step.
C17_RaiseLeavesSession ==
    [][ (reply' = RAISED /\ pc' = "idle") => Fields(SESSION') = Fields(SESSION) ]_vars

\* C18: whenever the loop body processes a verify invocation while the
\* state is not "otp_sent", call_tool posts nothing, state and verified
\* stay as they are and the turn ends with the reply that asks for the
\* email address.
C18_VerifyRefusedOutsideOtpSent ==
    [][ (LoopStep /\ tc'.name = VERIFY /\ SESSION.state # "otp_sent")
        => /\ gateway' = gateway
           /\ SESSION'.state = SESSION.state
           /\ SESSION'.verified = SESSION.verified
           /\ reply' = NEED_CODE_FIRST
           /\ pc' = "idle" ]_vars

\* a verify requested in a verified session has just been refused, after
\* an earlier invocation of the turn went to the gateway
C18_Witness ==
    /\ pc = "idle"
    /\ tc.name = VERIFY
    /\ reply = NEED_CODE_FIRST
    /\ SESSION.state = "verified" /\ SESSION.verified
    /\ gateway # <<>>
    /\ \A i \in 1..Len(gateway) : gateway[i].name # VERIFY

\* C19: a send whose result is not ok leaves SESSION.state as it was.
C19_RefusedSendKeepsState ==
    [][ (ResultStep(SEND) /\ ~Last(tool_messages').result.ok)
        => SESSION'.state = SESSION.state ]_vars

\* C20: in a turn that posted a find_free_slot request no
\* create_calendar_event request was posted; and when that turn ended
\* with the confirmation question, a slot is cached.
C20_FindPathNeverBooks ==
    (\E j \in 1..Len(gateway) : gateway[j].name = FIND) =>
        /\ \A i \in 1..Len(gateway) : gateway[i].name # CREATE
        /\ (pc = "idle" /\ reply = FOUND_SLOT) => HasProposed(SESSION)

\* the summary the claim asks for: the title, else the summary, else the
\* default
TitleFirst(title, summary) ==
    IF title # "" THEN title ELSE IF summary # "" THEN summary ELSE "Appointment"

\* C23: the summary of a create_calendar_event request is the title
\* argument when there is one, else the summary argument, else
\* "Appointment"; and so is the summary normalize_booking_args returns.
C23_TitleBeforeSummary ==
    [][ /\ PostStep(CREATE) =>
              Last(gateway').summary = TitleFirst(tc'.title, tc'.summary)
        /\ (norm.stage = "args" /\ norm'.stage = "once") =>
              norm'.once.summary = TitleFirst(norm.args.title, norm.args.summary) ]_vars

\* the tool records of a history, in order
ToolRecords(history) == SelectSeq(history, LAMBDA m : m.role = "tool")

\* C24: when a turn has ended with a reply, the tool records of the
\* history it appended name, in order, the requests call_tool posted
\* during the turn: every call's result is in the history.
C24_ToolResultsInHistory ==
    (pc = "idle" /\ reply # RAISED) =>
        LET T == ToolRecords(SESSION.history)
        IN  /\ Len(T) = Len(gateway)
            /\ \A i \in 1..Len(gateway) : T[i].content = gateway[i].name

\* C25: a verify that succeeds was posted for the address the session
\* records, and no step changes the recorded address while verified is
\* and stays true.
C25_VerifiedEmailIsSessionEmail ==
    [][ /\ (ResultStep(VERIFY) /\ VerifyOk(Last(tool_messages').result)) =>
              Last(gateway').email = SESSION'.email
        /\ (SESSION.verified /\ SESSION'.verified) =>
              SESSION'.email = SESSION.email ]_vars

\* C26: a find_free_slot search that finds no slot leaves no slot cached.
C26_FailedSearchClearsPending ==
    [][ (PostStep(FIND) /\ pc' = "idle" /\ reply' = NO_SLOT)
        => ~HasProposed(SESSION') ]_vars


(***************************************************************************)
(* Claims about the OTP ledger, checked under SpecLedger.                  *)
(***************************************************************************)
\* a step that is a call of issue, of verify: otp' describes the call
IssueStep(e)  == otp'.op = "send" /\ otp'.email = e /\ now' = now
VerifyStep(e) == otp'.op = "verify" /\ otp'.email = e /\ now' = now

MetaOf(store, e) == store[key(e, "meta")]

TooManyRequests  == Result(FALSE, FALSE, "too_many_requests")
Verified         == Result(TRUE, TRUE, "")

\* C4: of the issue calls made for an address within one rate window, the
\* first MAX_SENDS_PER_HOUR are not rate-refused; every later one answers
\* ok=false, too_many_requests, generates no code and leaves the stored OTP
\* record as it was.
C4_SixthIssueRefused ==
    [][ \A e \in LedgerKeys : IssueStep(e) =>
          LET n == window'[e][1].calls IN
          /\ n <= MAX_SENDS_PER_HOUR => otp'.result.reason # "too_many_requests"
          /\ n > MAX_SENDS_PER_HOUR =>
                /\ otp'.result = TooManyRequests
                /\ MetaOf(STORE', e) = MetaOf(STORE, e)
                /\ issued' = issued ]_vars

\* the sixth issue of a window has just been refused, a record in place
C4_Witness ==
    \E e \in LedgerKeys :
        /\ otp.op = "send" /\ otp.email = e
        /\ otp.result = TooManyRequests
        /\ window[e][1].calls = MAX_SENDS_PER_HOUR + 1
        /\ MetaOf(STORE, e) # <<>>

\* C5: verify with the issued code, on a record that is unexpired and has
\* fewer than MAX_ATTEMPTS attempts, answers ok, verified and deletes the
\* record; once the code is redeemed every verify for the address answers
\* no_pending until a new code is issued.
C5_SingleUse ==
    [][ \A e \in LedgerKeys : VerifyStep(e) =>
          /\ ( /\ Pending(STORE, e, now)
               /\ MetaOf(STORE, e)[1].attempts < MAX_ATTEMPTS
               /\ issued[e] # <<>>
               /\ otp'.code = issued[e][1].code )
             => (otp'.result = Verified /\ MetaOf(STORE', e) = <<>>)
          /\ (issued[e] # <<>> /\ issued[e][1].redeemed)
             => otp'.result.reason = "no_pending" ]_vars

\* the redeemed code has been submitted again and found nothing pending
C5_Witness ==
    \E e \in LedgerKeys :
        /\ otp.op = "verify" /\ otp.email = e
        /\ issued[e] # <<>> /\ issued[e][1].redeemed
        /\ otp.code = issued[e][1].code
        /\ otp.result.reason = "no_pending"

\* C6: on an unexpired record, a verify with an incorrect code answers
\* incorrect_code while fewer than MAX_ATTEMPTS verifies were made on the
\* record; from the next verify on, every verify, the correct code
\* included, answers too_many_attempts; in both cases the record stays.
C6_AttemptLimit ==
    [][ \A e \in LedgerKeys :
          (VerifyStep(e) /\ Pending(STORE, e, now) /\ issued[e] # <<>>) =>
          LET n == issued[e][1].verifies
              m == MetaOf(STORE, e)[1]
              kept == /\ MetaOf(STORE', e) # <<>>
                      /\ MetaOf(STORE', e)[1].hash = m.hash
                      /\ MetaOf(STORE', e)[1].exp = m.exp
          IN  /\ (n < MAX_ATTEMPTS /\ otp'.code # issued[e][1].code)
                 => (otp'.result.reason = "incorrect_code" /\ kept)
              /\ n >= MAX_ATTEMPTS
                 => (otp'.result.reason = "too_many_attempts" /\ kept) ]_vars

\* the correct code has been refused for too many attempts
C6_Witness ==
    \E e \in LedgerKeys :
        /\ otp.op = "verify" /\ otp.email = e
        /\ issued[e] # <<>> /\ otp.code = issued[e][1].code
        /\ otp.result.reason = "too_many_attempts"
        /\ MetaOf(STORE, e) # <<>>

\* C7: a verify made after the record's expiry answers expired, whatever
\* the code and the attempts, and deletes the record; a verify that finds
\* no record answers no_pending.
C7_ExpiredFirst ==
    [][ \A e \in LedgerKeys : VerifyStep(e) =>
          /\ (MetaOf(STORE, e) # <<>> /\ now > MetaOf(STORE, e)[1].exp)
             => (otp'.result = Result(FALSE, FALSE, "expired") /\ MetaOf(STORE', e) = <<>>)
          /\ MetaOf(STORE, e) = <<>>
             => (otp'.result = Result(FALSE, FALSE, "no_pending") /\ MetaOf(STORE', e) = <<>>) ]_vars

\* the correct code, submitted after expiry on a record whose attempts were
\* exhausted, has been answered expired
C7_Witness ==
    \E e \in LedgerKeys :
        /\ otp.op = "verify" /\ otp.email = e
        /\ issued[e] # <<>> /\ otp.code = issued[e][1].code
        /\ issued[e][1].verifies > MAX_ATTEMPTS
        /\ otp.result.reason = "expired"
        /\ MetaOf(STORE, e) = <<>>

\* C8: a non-refused issue made while the previous code is pending,
\* unexpired and unused replaces the whole record (new hash, expiry
\* now + TTL_S, attempts 0); after it the superseded code is answered
\* incorrect_code and the newest code verifies.
C8_LatestCodeWins ==
    [][ \A e \in LedgerKeys :
          /\ ( /\ IssueStep(e) /\ Pending(STORE, e, now)
               /\ otp'.result.reason # "too_many_requests" )
             => MetaOf(STORE', e) =
                    <<[hash |-> hash(otp'.code), exp |-> now + TTL_S, attempts |-> 0]>>
          /\ ( /\ VerifyStep(e) /\ Pending(STORE, e, now)
               /\ issued[e] # <<>> /\ issued[e][1].prev # ""
               /\ issued[e][1].prev # issued[e][1].code
               /\ issued[e][1].verifies < MAX_ATTEMPTS )
             => /\ otp'.code = issued[e][1].prev => otp'.result.reason = "incorrect_code"
                /\ otp'.code = issued[e][1].code => otp'.result = Verified ]_vars

\* the newest code has verified, after a re-send that superseded a pending
\* code and after a verify that failed on the new record
C8_Witness ==
    \E e \in LedgerKeys :
        /\ otp.op = "verify" /\ otp.email = e
        /\ otp.result = Verified
        /\ issued[e] # <<>> /\ issued[e][1].prev # ""
        /\ issued[e][1].prev # issued[e][1].code
        /\ issued[e][1].verifies >= 2

BucketOf(store, e) == store[key(e, "bucket")]

\* C22: an issue made more than WINDOW_S seconds after the start of the
\* bucket's window restarts the bucket at count 1 with the current time as
\* its start and is not rate-refused; an issue made at or before
\* start + WINDOW_S, refused or not, adds one to the count and keeps the
\* start.
C22_BucketResetAfterWindow ==
    [][ \A e \in LedgerKeys : IssueStep(e) =>
          LET old == BucketOf(STORE, e)
              new == BucketOf(STORE', e)
          IN  IF old = <<>>
              THEN new = <<[count |-> 1, start |-> now]>>
              ELSE IF now > old[1].start + WINDOW_S
              THEN /\ new = <<[count |-> 1, start |-> now]>>
                   /\ otp'.result.reason # "too_many_requests"
              ELSE new = <<[count |-> old[1].count + 1, start |-> old[1].start]>> ]_vars

\* an issue made after an exhausted window was over has restarted the
\* bucket and was not refused
C22_Witness ==
    \E e \in LedgerKeys :
        /\ otp.op = "send" /\ otp.email = e
        /\ otp.result.reason # "too_many_requests"
        /\ BucketOf(STORE, e) = <<[count |-> 1, start |-> now]>>
        /\ window[e] # <<>> /\ window[e][1].before > MAX_SENDS_PER_HOUR


(***************************************************************************)
(* Claims about find_free_slot, checked under SpecSched.                   *)
(***************************************************************************)
\* the busy list is sorted by start and its intervals do not overlap
SortedDisjoint(busy) ==
    \A i \in 1..(Len(busy) - 1) : busy[i].end <= busy[i + 1].start

Overlaps(s, e, b) == s < b.end /\ b.start < e

\* the minute [t, t+1) of the window is free
FreeMinute(t, busy) == \A i \in 1..Len(busy) : ~(busy[i].start <= t /\ t < busy[i].end)

\* the free gaps of the window: the maximal runs of free minutes
GapStarts(w, busy) ==
    {g \in w.start..(w.end - 1) :
        FreeMinute(g, busy) /\ (g = w.start \/ ~FreeMinute(g - 1, busy))}

GapEnd(g, w, busy) ==
    CHOOSE h \in (g + 1)..w.end :
        /\ \A t \in g..(h - 1) : FreeMinute(t, busy)
        /\ (h = w.end \/ ~FreeMinute(h, busy))

\* the starts of the gaps long enough for duration + 2 * padding
Qualifying(w, busy, need) ==
    {g \in GapStarts(w, busy) : GapEnd(g, w, busy) - g >= need}

Earliest(S) == CHOOSE g \in S : \A h \in S : g <= h

\* C9: for a sorted, non-overlapping busy list (its intervals anywhere on
\* the time line, before, inside and after the window), a returned slot
\* overlaps no busy interval, lies inside the window and is exactly
\* duration long.
C9_SlotFreeInsideWindow ==
    (sched.done /\ SortedDisjoint(sched.busy) /\ sched.result.found) =>
        /\ \A i \in 1..Len(sched.busy) :
              ~Overlaps(sched.result.start, sched.result.end, sched.busy[i])
        /\ sched.window.start <= sched.result.start
        /\ sched.result.end <= sched.window.end
        /\ sched.result.end - sched.result.start = sched.duration_minutes

\* C10: the result is the earliest qualifying gap of the window, padded:
\* [gapStart + padding, gapStart + padding + duration); it is "no slot"
\* exactly when no free gap of the window is duration + 2 * padding long.
C10_EarliestQualifyingGap ==
    (sched.done /\ SortedDisjoint(sched.busy)) =>
        LET need == sched.duration_minutes + 2 * sched.pad_minutes
            Q    == Qualifying(sched.window, sched.busy, need)
        IN  IF Q = {} THEN ~sched.result.found
            ELSE sched.result =
                    [found |-> TRUE,
                     start |-> Earliest(Q) + sched.pad_minutes,
                     end   |-> Earliest(Q) + sched.pad_minutes + sched.duration_minutes]

\* the call under way is the morning call
IsMorningCall ==
    /\ sched.window = MorningCall.window
    /\ sched.busy = MorningCall.busy
    /\ sched.duration_minutes = MorningCall.duration_minutes
    /\ sched.pad_minutes = MorningCall.pad_minutes

\* C11 as stated: for the window 09:00-13:00, busy [09:30,10:00] and
\* [11:00,11:30], 30 minutes and no padding, find_free_slot returns
\* 10:00-10:30.
C11_MorningSlotAfterFirstBusy ==
    (sched.done /\ IsMorningCall) =>
        sched.result = [found |-> TRUE, start |-> Clock(10, 0), end |-> Clock(10, 30)]

\* C11, amended: for that call find_free_slot returns 09:00-09:30, the gap
\* between the start of the window and the first busy interval, which is
\* exactly 30 minutes long.
C11_MorningSlotIsLeadingGap ==
    (sched.done /\ IsMorningCall) =>
        sched.result = [found |-> TRUE, start |-> Clock(9, 0), end |-> Clock(9, 30)]

\* the morning call has returned a slot
C11_Witness == sched.done /\ IsMorningCall /\ sched.result.found

\* the cursor of the scan after the first i busy intervals
CursorAfter(i) ==
    ScanBusy(SubSeq(sched.busy, 1, i), 1, sched.window.start, <<>>).cursor

\* C21: for a busy list with overlapping or out-of-order intervals, the
\* cursor of the scan never moves backward, and a returned slot overlaps
\* no busy interval of the list.
C21_UnsortedBusyHandled ==
    (sched.done /\ ~SortedDisjoint(sched.busy)) =>
        /\ \A i \in 1..Len(sched.busy) : CursorAfter(i - 1) <= CursorAfter(i)
        /\ sched.result.found =>
              \A i \in 1..Len(sched.busy) :
                  ~Overlaps(sched.result.start, sched.result.end, sched.busy[i])


(***************************************************************************)
(* Claims about normalize_booking_args, checked under SpecNorm.            *)
(***************************************************************************)
\* the request carries a timezone-qualified start_iso and an end_iso
Concrete(args) ==
    /\ args.start_iso # <<>> /\ args.start_iso[1].off \in {"Z", "+00:00", "+01:00"}
    /\ args.end_iso # <<>>

\* C14: normalizing the output of a normalization returns the same
\* start_iso and end_iso, whatever duration the request asked for; and a
\* request that carries a timezone-qualified start_iso and an end_iso
\* keeps both.
C14_NormalizeIdempotent ==
    /\ norm.stage = "twice" =>
          /\ norm.twice.start_iso = norm.once.start_iso
          /\ norm.twice.end_iso = norm.once.end_iso
    /\ (norm.stage \in {"once", "twice"} /\ Concrete(norm.args)) =>
          /\ norm.once.start_iso = norm.args.start_iso
          /\ norm.once.end_iso = norm.args.end_iso


(***************************************************************************)
(* Claims about the OTP server under concurrent requests, checked under    *)
(* SpecRace.                                                               *)
(***************************************************************************)
\* C15: however the issue calls for one address interleave, no more than
\* MAX_SENDS_PER_HOUR of the calls of one rate window pass the rate check.
C15_RateCapUnderConcurrency == tally.passed <= MAX_SENDS_PER_HOUR

\* thread t, in a verify, writes or deletes under the meta key in this step
VerifyWrites(t) ==
    /\ threads[t].pc \in {"verify_exp", "verify_check"}
    /\ threads'[t].pc = "idle"

\* C16: a verify that read a record which an issue has since replaced
\* leaves the record of that newer issue in the store: its final _set or
\* _del does not change what the meta key holds.
C16_VerifyKeepsNewerRecord ==
    [][ \A t \in Threads :
          ( /\ VerifyWrites(t)
            /\ STORE[MetaKey] = <<tally.newest>>
            /\ threads[t].rec # tally.newest )
          => STORE'[MetaKey] = STORE[MetaKey] ]_vars

\* the meta records ever stored
MetaRefs == {i \in 1..Len(heap) : "hash" \in DOMAIN heap[i]}

\* C27: however the verify calls for one address interleave, a verify
\* succeeds at most once on one stored record, and the hash of one record
\* is compared at most MAX_ATTEMPTS times.
C27_RedeemedOnceUnderConcurrency ==
    \A i \in MetaRefs :
        /\ heap[i].redeemed <= 1
        /\ heap[i].compared <= MAX_ATTEMPTS

=============================================================================
